---- MODULE Spec2Model ----
(***************************************************************************)
(* Model of app.py, the Streamlit page "Estimateur de Prix Immobilier".    *)
(*                                                                         *)
(* Streamlit re-executes the script from line 1 to its end on every        *)
(* interaction.  One action of this module is one such script run: the     *)
(* interaction changes one widget's state (or presses one button), then    *)
(* Script executes lines 12..156 against that state.  What survives a run  *)
(* is the st.cache_resource store (process wide) and the widget state of   *)
(* the session; everything else (the page, the values computed) is         *)
(* rebuilt by the run and recorded in the variable run.                    *)
(*                                                                         *)
(* Units.  Floats are modelled at a fixed resolution: the number inputs in *)
(* tenths (population and house age in units), prices in quarter dollars,  *)
(* so that a price can lie exactly halfway between two integers, and the   *)
(* R2 score in 1/10000.                                                    *)
(***************************************************************************)
EXTENDS Integers, Sequences, FiniteSets, TLC

VARIABLES
    pkl,         \* the content of mon_super_modele.pkl on disk (never written)
    cache,       \* st.cache_resource store of load_model: <<>> or <<model>>
    disk_reads,  \* number of joblib.load calls that returned a model
    widgets,     \* session widget state of the eight inputs
    lab,         \* session widget state of the sidebar checkbox and the two sliders
    run          \* what the last script run did and put on the page

vars == <<pkl, cache, disk_reads, widgets, lab, run>>

(***************************************************************************)
(* Bounds of the model.                                                    *)
(***************************************************************************)
\* The draws an unseeded forest can take from the process RNG: 0..MaxDraw.
MaxDraw == 1
\* Importance values of the artifacts of SpecChart: 0..MaxImportance.
MaxImportance == 2

(***************************************************************************)
(* Widgets (lines 22-31, 100, 121, 123).                                   *)
(***************************************************************************)
InputNames ==
    {"med_inc", "house_age", "ave_rooms", "ave_bedrms",
     "population", "ave_occup", "latitude", "longitude"}

\* value= of the number inputs and the third argument of the slider
WidgetDefaults ==
    [med_inc |-> 50, house_age |-> 20, ave_rooms |-> 60, ave_bedrms |-> 10,
     population |-> 1000, ave_occup |-> 30, latitude |-> 377, longitude |-> -1224]

\* st.slider(label, min, max, value)
house_age_slider == [min |-> 1, max |-> 50, value |-> 20]
n_arbres_slider_wide == [min |-> 1, max |-> 100, value |-> 30]
n_arbres_slider == [min |-> 10, max |-> 100, value |-> 30]
profondeur_slider == [min |-> 1, max |-> 20, value |-> 5]

\* The positions a slider can be dragged to are min..max; the model samples
\* both ends and the default.
SliderPositions(s) == {v \in {s.min, s.value, s.max} : v \in s.min..s.max}

\* The values an input can be set to: the default and one step of the widget
\* (step=0.1, 0.5, 0.1, 100, 0.1), the two example cities for the
\* coordinates, a slider position for the house age.
InputValues(name) ==
    CASE name = "med_inc" -> {50, 51}
      [] name = "house_age" -> SliderPositions(house_age_slider)
      [] name = "ave_rooms" -> {60, 65}
      [] name = "ave_bedrms" -> {10, 11}
      [] name = "population" -> {1000, 1100}
      [] name = "ave_occup" -> {30, 31}
      [] name = "latitude" -> {377, 340}
      [] name = "longitude" -> {-1224, -1182}

\* The lab widgets before they are first rendered: checkbox unchecked, the
\* sliders at their value argument.
LabDefaults ==
    [show |-> FALSE, n_arbres |-> n_arbres_slider.value,
     profondeur |-> profondeur_slider.value]

(***************************************************************************)
(* The trained model (an opaque RandomForestRegressor): its predict and    *)
(* its feature_importances_.                                               *)
(***************************************************************************)
\* Lines 48-57: the one-row frame handed to predict.
features(w) ==
    [MedInc |-> w.med_inc, HouseAge |-> w.house_age, AveRooms |-> w.ave_rooms,
     AveBedrms |-> w.ave_bedrms, Population |-> w.population,
     AveOccup |-> w.ave_occup, Latitude |-> w.latitude, Longitude |-> w.longitude]

\* model.predict(features)[0] * 100000, in quarter dollars: a deterministic
\* function of the model and of all eight columns.
prix_final(model, f) ==
    model.intercept
    + model.slope * (f.MedInc + f.HouseAge + f.AveRooms + f.AveBedrms
                     + f.Population + f.AveOccup + f.Latitude + f.Longitude)

prix_moyen_californie == 206855

\* delta = prix_final - prix_moyen_californie (line 66), in quarter dollars;
\* the float subtraction is exact at this resolution and magnitude.
delta(prix) == prix - 4 * prix_moyen_californie

\* f"{x:,.0f}": x (in quarter dollars) printed with no decimals, that is,
\* rounded to the nearest integer, a tie going to the even one.
format_0f(q) ==
    LET fl == q \div 4
        r  == q % 4
    IN  IF r < 2 THEN fl
        ELSE IF r > 2 THEN fl + 1
        ELSE IF fl % 2 = 0 THEN fl ELSE fl + 1

\* Line 85 (the accents of two labels are dropped).
feature_names ==
    <<"Revenu", "Age", "Pieces", "Chambres",
      "Population", "Occupants", "Latitude", "Longitude">>

Reverse(s) == [i \in 1..Len(s) |-> s[Len(s) + 1 - i]]

\* A row goes after every row that is not larger: a stable ascending sort.
RECURSIVE InsertAscending(_, _)
InsertAscending(row, sorted) ==
    IF sorted = <<>> THEN <<row>>
    ELSE IF Head(sorted).Importance <= row.Importance
         THEN <<Head(sorted)>> \o InsertAscending(row, Tail(sorted))
         ELSE <<row>> \o sorted

RECURSIVE SortAscending(_)
SortAscending(rows) ==
    IF rows = <<>> THEN <<>>
    ELSE InsertAscending(rows[Len(rows)], SortAscending(SubSeq(rows, 1, Len(rows) - 1)))

\* DataFrame.sort_values(by='Importance', ascending=...): pandas reverses the
\* column, sorts it ascending, and reverses the result when ascending=False.
sort_values(rows, ascending) ==
    IF ascending THEN SortAscending(rows)
    ELSE Reverse(SortAscending(Reverse(rows)))

\* Lines 86-89: the i-th label with the i-th importance.
importance_frame(importance) ==
    [i \in 1..Len(feature_names) |->
        [Critere |-> feature_names[i], Importance |-> importance[i]]]

df_importance_ascending(importance) == sort_values(importance_frame(importance), TRUE)

\* Lines 86-92: the frame handed to st.bar_chart.
df_importance(importance) == sort_values(importance_frame(importance), FALSE)

(***************************************************************************)
(* The artifacts the file on disk may hold.                                *)
(***************************************************************************)
\* The regressor of the main specification.  It prices the default house
\* half a dollar under the reference average, so that the edits of the
\* inputs move the price to either side of it and onto every quarter.
Artifacts ==
    { [intercept |-> 4 * prix_moyen_californie - 325, slope |-> 1,
       importances |-> <<52, 0, 10, 3, 0, 14, 10, 11>>] }

\* Every importance vector over 0..MaxImportance, for the chart.
ChartArtifacts ==
    { [intercept |-> 4 * prix_moyen_californie, slope |-> 1, importances |-> imp] :
        imp \in [1..Len(feature_names) -> 0..MaxImportance] }

(***************************************************************************)
(* Lines 8-12: load_model under st.cache_resource.                         *)
(***************************************************************************)
\* load_model without the decorator: every call reads the file
load_model_uncached(store, file, ok) ==
    IF ok THEN [outcome |-> "miss", store |-> <<file>>, attempts |-> 1, reads |-> 1]
    ELSE [outcome |-> "fail", store |-> store, attempts |-> 1, reads |-> 0]

\* A call returns the stored model when there is one; otherwise it runs
\* joblib.load, which either raises (nothing is stored) or returns the
\* model, which is stored.
load_model(store, file, ok) ==
    IF store # <<>>
    THEN [outcome |-> "hit", store |-> store, attempts |-> 0, reads |-> 0]
    ELSE IF ok
         THEN [outcome |-> "miss", store |-> <<file>>, attempts |-> 1, reads |-> 1]
         ELSE [outcome |-> "fail", store |-> <<>>, attempts |-> 1, reads |-> 0]

\* Line 12 if the exception of a failed load were swallowed
ProceedsAlways(outcome) == TRUE

\* Line 12: an exception raised by load_model ends the script run there.
Proceeds(outcome) == outcome # "fail"

(***************************************************************************)
(* The two buttons: st.button returns True only in the run that its click  *)
(* started.                                                                *)
(***************************************************************************)
\* the estimate branch taken on the click of either button
estimate_button_any_click(trigger) == trigger \in {"estimate", "experiment"}

\* Line 45.
estimate_button(trigger) == trigger = "estimate"

\* the experiment branch not guarded by its button
experiment_button_unguarded(trigger) == TRUE

\* Line 126.
experiment_button(trigger) == trigger = "experiment"

(***************************************************************************)
(* Lines 45-95: the Predictor.                                             *)
(***************************************************************************)
PredictorSteps == {"features", "predict", "feature_importances_"}

predictor(model, w) ==
    LET f    == features(w)
        prix == prix_final(model, f)
    IN  [features |-> f,
         prix_final |-> prix,
         delta |-> delta(prix),
         value |-> format_0f(prix),
         delta_shown |-> format_0f(delta(prix)),
         chart |-> df_importance(model.importances)]

(***************************************************************************)
(* Lines 107-148: the Experiment Runner.                                   *)
(***************************************************************************)
RunnerSteps == {"fetch_california_housing", "train_test_split", "fit", "score"}

\* train_test_split(X, Y, test_size=0.2, random_state=42)
split_random_state == 42

\* RandomForestRegressor(n_estimators=n_arbres, max_depth=profondeur): no
\* random_state is given, so the bootstrap samples of the forest come from
\* the process RNG, whose state nothing in the script fixes.
RngDraws == 0..MaxDraw

\* lab_model.score(X_test, Y_test), in 1/10000: determined by the split,
\* the hyperparameters and the forest's draws.
score(seed, n_estimators, max_depth, draw) ==
    10000 - (4000 \div max_depth) - (3000 \div n_estimators)
          - (seed % 7) - 10 * draw

\* The steps of lines 128-134 in order; the one named by fail_at raises.
TrainingSteps == <<"train_test_split", "fit", "score">>

StepsUntil(fail_at) ==
    LET reached(i) == \A j \in 1..(i - 1) : TrainingSteps[j] # fail_at
    IN  {TrainingSteps[i] : i \in {k \in 1..Len(TrainingSteps) : reached(k)}}

experiment(n_estimators, max_depth, fail_at, draw) ==
    [n_estimators |-> n_estimators,
     max_depth |-> max_depth,
     steps |-> StepsUntil(fail_at),
     outcome |-> IF fail_at = "none" THEN "ok" ELSE "failed",
     score |-> IF fail_at = "none"
               THEN <<score(split_random_state, n_estimators, max_depth, draw)>>
               ELSE <<>>]

(***************************************************************************)
(* What one script run puts on the page.                                   *)
(***************************************************************************)
\* st.stop() at the end of the estimate branch: nothing below line 95 runs
RenderedStopAfterEstimate(go, est, panel, outcome) ==
    IF ~go THEN {}
    ELSE IF est THEN {"inputs", "map", "estimate_button", "metric", "bar_chart"}
    ELSE {"inputs", "map", "estimate_button", "lab_toggle"}
         \cup (IF panel THEN {"lab_header", "sliders", "experiment_button"} ELSE {})
         \cup (IF outcome = "ok" THEN {"score", "scatter"} ELSE {})

\* a failed experiment taking the whole page with it
RenderedBlankOnFailure(go, est, panel, outcome) ==
    IF ~go \/ outcome = "failed" THEN {}
    ELSE {"inputs", "map", "estimate_button", "lab_toggle"}
         \cup (IF est THEN {"metric", "bar_chart"} ELSE {})
         \cup (IF panel THEN {"lab_header", "sliders", "experiment_button"} ELSE {})
         \cup (IF outcome = "ok" THEN {"score", "scatter"} ELSE {})

\* The elements in script order: lines 15-41, 45, 71-95, 98-100, 103-126,
\* 136-156.  An exception in lines 128-134 ends the run before line 136;
\* everything above it is already on the page.
Rendered(go, est, panel, outcome) ==
    IF ~go THEN {}
    ELSE {"inputs", "map", "estimate_button", "lab_toggle"}
         \cup (IF est THEN {"metric", "bar_chart"} ELSE {})
         \cup (IF panel THEN {"lab_header", "sliders", "experiment_button"} ELSE {})
         \cup (IF outcome = "ok" THEN {"score", "scatter"} ELSE {})

\* No run yet: the process has started and no browser has connected.
NoRun ==
    [trigger |-> "none", load |-> "none", attempts |-> 0, status |-> "none",
     page |-> {}, steps |-> {}, estimate |-> <<>>, experiment |-> <<>>]

(***************************************************************************)
(* One script run, lines 12-156, with the widget values w and l.  A widget *)
(* that a run did not render loses its state and restarts from its         *)
(* default.                                                                *)
(***************************************************************************)
Script(trigger, w, l, fail_at, draw) ==
    \E ok \in BOOLEAN :
        LET ld     == load_model(cache, pkl, ok)
            go     == Proceeds(ld.outcome)
            est    == go /\ estimate_button(trigger)
            panel  == go /\ l.show
            exp    == panel /\ experiment_button(trigger)
            result == IF exp
                      THEN <<experiment(l.n_arbres, l.profondeur, fail_at, draw)>>
                      ELSE <<>>
            outcome == IF exp THEN result[1].outcome ELSE "none"
            page   == Rendered(go, est, panel, outcome)
        IN  /\ pkl' = pkl
            /\ cache' = ld.store
            /\ disk_reads' = disk_reads + ld.reads
            /\ widgets' = IF "inputs" \in page THEN w ELSE WidgetDefaults
            /\ lab' = [show |-> IF "lab_toggle" \in page THEN l.show
                                 ELSE LabDefaults.show,
                       n_arbres |-> IF "sliders" \in page THEN l.n_arbres
                                    ELSE LabDefaults.n_arbres,
                       profondeur |-> IF "sliders" \in page THEN l.profondeur
                                      ELSE LabDefaults.profondeur]
            /\ run' = [trigger |-> trigger,
                       load |-> ld.outcome,
                       attempts |-> ld.attempts,
                       status |-> IF ld.outcome = "fail" THEN "load_failed"
                                  ELSE IF outcome = "failed" THEN "experiment_failed"
                                  ELSE "ok",
                       page |-> page,
                       steps |-> {"load_model"}
                                 \cup (IF est THEN PredictorSteps ELSE {})
                                 \cup (IF panel THEN {"fetch_california_housing"} ELSE {})
                                 \cup (IF exp THEN result[1].steps ELSE {}),
                       estimate |-> IF est THEN <<predictor(ld.store[1], w)>> ELSE <<>>,
                       experiment |-> result]

(***************************************************************************)
(* The interactions.  A widget can be used once a run has rendered it.     *)
(***************************************************************************)
\* A browser opens the page: a new session, every widget at its default.
Visit == Script("visit", WidgetDefaults, LabDefaults, "none", 0)

\* The user reruns the page (or a failed page is reloaded).
Rerun ==
    /\ run.status # "none"
    /\ Script("rerun", widgets, lab, "none", 0)

EditInput ==
    /\ "inputs" \in run.page
    /\ \E name \in InputNames : \E v \in InputValues(name) :
          /\ v # widgets[name]
          /\ Script("edit", [widgets EXCEPT ![name] = v], lab, "none", 0)

ClickEstimate ==
    /\ "estimate_button" \in run.page
    /\ Script("estimate", widgets, lab, "none", 0)

ToggleLab ==
    /\ "lab_toggle" \in run.page
    /\ Script("toggle", widgets, [lab EXCEPT !.show = ~lab.show], "none", 0)

SetTrees ==
    /\ "sliders" \in run.page
    /\ \E v \in SliderPositions(n_arbres_slider) :
          /\ v # lab.n_arbres
          /\ Script("slider", widgets, [lab EXCEPT !.n_arbres = v], "none", 0)

SetDepth ==
    /\ "sliders" \in run.page
    /\ \E v \in SliderPositions(profondeur_slider) :
          /\ v # lab.profondeur
          /\ Script("slider", widgets, [lab EXCEPT !.profondeur = v], "none", 0)

\* The click; whether a step of the training raises, and what the forest
\* draws, is not in the user's hands.
ClickExperiment ==
    /\ "experiment_button" \in run.page
    /\ \E fail_at \in {"none", "train_test_split", "fit", "score"} :
       \E draw \in RngDraws :
          Script("experiment", widgets, lab, fail_at, draw)

Init ==
    /\ pkl \in Artifacts
    /\ cache = <<>>
    /\ disk_reads = 0
    /\ widgets = WidgetDefaults
    /\ lab = LabDefaults
    /\ run = NoRun

Next ==
    \/ Visit
    \/ Rerun
    \/ EditInput
    \/ ClickEstimate
    \/ ToggleLab
    \/ SetTrees
    \/ SetDepth
    \/ ClickExperiment

Spec == Init /\ [][Next]_vars

\* The estimate workflow alone, over every importance vector.
InitChart ==
    /\ pkl \in ChartArtifacts
    /\ cache = <<>>
    /\ disk_reads = 0
    /\ widgets = WidgetDefaults
    /\ lab = LabDefaults
    /\ run = NoRun

NextChart ==
    \/ Visit
    \/ ClickEstimate

SpecChart == InitChart /\ [][NextChart]_vars

(***************************************************************************)
(* Properties.                                                             *)
(***************************************************************************)
Shown == run.estimate # <<>>
Estimate == run.estimate[1]
Ran == run.experiment # <<>>
Experiment == run.experiment[1]

\* C1: once a load has succeeded, no later script run reads the artifact
\* again: every later run gets the cached model, so the file is read at most
\* once per process.
C1_LoadedOnce ==
    [][ /\ disk_reads' <= 1
        /\ cache # <<>> =>
              /\ run'.load = "hit"
              /\ cache' = cache
              /\ disk_reads' = disk_reads ]_vars

C1_Reused == run.load = "hit" /\ disk_reads = 1 /\ run.trigger # "visit"

\* C2: two consecutive successful experiment runs with the same tree count
\* and max depth show the same score.
C2_SameHyperparametersSameScore ==
    [][ ( /\ Ran /\ Experiment.outcome = "ok"
          /\ run'.experiment # <<>> /\ run'.experiment[1].outcome = "ok"
          /\ run'.experiment[1].n_estimators = Experiment.n_estimators
          /\ run'.experiment[1].max_depth = Experiment.max_depth )
        => run'.experiment[1].score = Experiment.score ]_vars

\* C3: the delta shown is the price shown minus 206855.
C3_DeltaMatchesPrice ==
    Shown => Estimate.delta_shown = Estimate.value - prix_moyen_californie

Pairing ==
    {[Critere |-> feature_names[i], Importance |-> cache[1].importances[i]] :
        i \in 1..Len(feature_names)}

IsPairing(chart) ==
    /\ Len(chart) = Len(feature_names)
    /\ {chart[k] : k \in 1..Len(chart)} = Pairing

C5_StepsOnlyOnAction ==
    /\ run.steps \cap PredictorSteps # {} => run.trigger = "estimate"
    /\ run.steps \cap RunnerSteps # {} =>
          "lab_header" \in run.page /\ run.trigger = "experiment"

\* C5 amended: the Predictor's steps run only in a run the estimate click
\* started; the split, the training and the scoring only in a run the
\* experiment click started with the lab panel visible; the dataset load in
\* every run that shows the lab panel, and in no other.
C5_StepsGated ==
    /\ run.steps \cap PredictorSteps # {} => run.trigger = "estimate"
    /\ run.steps \cap (RunnerSteps \ {"fetch_california_housing"}) # {} =>
          "lab_header" \in run.page /\ run.trigger = "experiment"
    /\ "fetch_california_housing" \in run.steps <=> "lab_header" \in run.page

C5_DatasetLoadedWithoutClick ==
    /\ run.trigger \notin {"estimate", "experiment"}
    /\ "fetch_california_housing" \in run.steps
    /\ run.steps \cap {"train_test_split", "fit", "score"} = {}

\* C6 as stated: a failed experiment run leaves what the predictor panel
\* displayed (the estimate included), the cached model and the eight input
\* values as they were.
C6_EstimateSurvivesFailure ==
    [][ run'.status = "experiment_failed" =>
          /\ run'.estimate = run.estimate
          /\ {"inputs", "map"} \subseteq run'.page
          /\ cache' = cache
          /\ widgets' = widgets ]_vars

\* C6 amended: a failed experiment run ends that script run only: the input
\* widgets and the map are displayed, the cached model and the eight input
\* values are unchanged, and no estimate is displayed.
C6_FailureEndsRunOnly ==
    [][ run'.status = "experiment_failed" =>
          /\ run'.estimate = <<>>
          /\ {"inputs", "map"} \subseteq run'.page
          /\ cache' = cache
          /\ widgets' = widgets ]_vars

C6_FailedWithEditedInputs ==
    /\ run.status = "experiment_failed"
    /\ run.trigger = "experiment"
    /\ widgets # WidgetDefaults

\* C7: a run whose load fails makes one attempt and produces nothing (no
\* widget, map, estimate or lab panel), and an estimate is displayed only
\* by a run that got a model.
C7_LoadFailureStopsRun ==
    /\ run.load = "fail" =>
          /\ run.attempts = 1
          /\ run.status = "load_failed"
          /\ run.page = {}
          /\ run.steps = {"load_model"}
          /\ ~Shown /\ ~Ran
          /\ cache = <<>>
    /\ Shown => run.load \in {"hit", "miss"} /\ cache # <<>>

C7_FailedAgain == run.load = "fail" /\ run.trigger = "rerun"

\* C8: a run started by the estimate click changes neither the cached
\* model, nor the inputs, nor the lab widgets, and an estimate repeated on
\* the same inputs shows the same price.
C8_EstimateMutatesNothing ==
    [][ run'.trigger = "estimate" =>
          /\ cache' = cache /\ pkl' = pkl /\ disk_reads' = disk_reads
          /\ widgets' = widgets
          /\ lab' = lab
          /\ (Shown /\ Estimate.features = run'.estimate[1].features) =>
                run'.estimate[1].prix_final = Estimate.prix_final ]_vars

C8_EstimateWithLabOpen ==
    /\ Shown
    /\ lab.show /\ lab.n_arbres # LabDefaults.n_arbres
    /\ widgets # WidgetDefaults

\* C9: the tree count stays in 10..100, the max depth in 1..20 and the house
\* age in 1..50, in the widgets and in what fit and predict receive; before
\* any interaction they are 30, 5 and 20.
C9_SlidersBounded ==
    /\ lab.n_arbres \in 10..100
    /\ lab.profondeur \in 1..20
    /\ widgets.house_age \in 1..50
    /\ Ran => Experiment.n_estimators \in 10..100 /\ Experiment.max_depth \in 1..20
    /\ Shown => Estimate.features.HouseAge \in 1..50
    /\ run.trigger \in {"none", "visit"} =>
          lab.n_arbres = 30 /\ lab.profondeur = 5 /\ widgets.house_age = 20

C9_TrainedAtTheEnds ==
    /\ Ran /\ "fit" \in run.steps
    /\ Experiment.n_estimators = 10 /\ Experiment.max_depth = 20
    /\ widgets.house_age = 50

\* C10: an estimate on the page was computed by the run that drew the page,
\* from the inputs the widgets hold, and never shares the page with an
\* experiment result.
C10_EstimateNeverStale ==
    /\ Shown <=> {"metric", "bar_chart"} \cap run.page # {}
    /\ Shown =>
          /\ run.trigger = "estimate"
          /\ PredictorSteps \subseteq run.steps
          /\ Estimate.features = features(widgets)
          /\ Estimate.prix_final = prix_final(cache[1], features(widgets))
          /\ ~Ran
          /\ {"score", "scatter"} \cap run.page = {}
    /\ run.trigger # "estimate" => ~Shown

C10_EstimateOfEditedInputs ==
    /\ Shown
    /\ widgets # WidgetDefaults
    /\ lab.show

====
